---- MODULE Spec2Model ----
(***************************************************************************)
(* Model of the front-end data-access layer (utils/api.js: fetchJson and   *)
(* the operation catalog built on it) and of the route switch              *)
(* (layout/Routes.js).                                                     *)
(*                                                                         *)
(* One invocation of an operation is followed from the call to the         *)
(* settlement of the promise it returns.  The environment (the fetch       *)
(* platform call, the backend, the caller's AbortController) is drawn from *)
(* small sets.                                                             *)
(***************************************************************************)
EXTENDS Integers, Sequences, FiniteSets, TLC

VARIABLES
    pc,          \* position of the invocation: idle, fetching, parsing, fmtDate, fmtTime, settled
    call,        \* the operation invoked and its arguments
    signal,      \* the caller's AbortSignal: none (not supplied), live, aborted
    abortPhase,  \* history: the position at which the signal was aborted
    requests,    \* the fetch calls issued by this invocation, in order
    response,    \* the Response fetch resolved with (status, body on the wire)
    jsonCalls,   \* number of invocations of response.json()
    payload,     \* the value response.json() resolved with
    core,        \* outcome of fetchJson (the transport core)
    logged,      \* the errors handed to console.error
    fmtLog,      \* invocations of the formatting functions, in order
    result,      \* settlement of the promise the operation returned
    strictFmt,   \* whether the formatters throw on a value that is no array
    location,    \* Routes: the current path, a sequence of segments
    rendered     \* Routes: the element the Switch renders for location

vars == <<pc, call, signal, abortPhase, requests, response, jsonCalls, payload,
          core, logged, fmtLog, result, strictFmt, location, rendered>>

apiVars == <<pc, call, signal, abortPhase, requests, response, jsonCalls, payload,
             core, logged, fmtLog, result, strictFmt>>

routeVars == <<location, rendered>>

(***************************************************************************)
(* Bounds                                                                  *)
(***************************************************************************)
MaxItems == 2     \* longest `data` array a response carries
MaxDepth == 3     \* longest path (in segments) navigated to

(***************************************************************************)
(* JavaScript values.  Every value is a record of one shape so that any    *)
(* two can be compared: t is the type tag, k a key, s a string, items the  *)
(* elements of an array.                                                   *)
(***************************************************************************)
Val(t, k, s, items) == [t |-> t, k |-> k, s |-> s, items |-> items]

Undefined == Val("undefined", "", "", <<>>)
Null == Val("null", "", "", <<>>)
Str(s) == Val("string", "", s, <<>>)
Num(s) == Val("number", "", s, <<>>)
Arr(items) == Val("array", "", "", items)
\* an Error instance: k is the place that threw it (its identity), s its name
Err(name, origin) == Val("error", origin, name, <<>>)
\* the plain object { message: m }
Message(m) == Val("message", "message", m.s, <<>>)

EmptyArray == Arr(<<>>)

\* JavaScript truthiness of the values above
Truthy(v) ==
    CASE v.t = "undefined" -> FALSE
      [] v.t = "null" -> FALSE
      [] v.t = "string" -> v.s # ""
      [] v.t = "number" -> v.s # "0"
      [] OTHER -> TRUE

\* settlement of a promise / completion of a call
Pending == [state |-> "pending", value |-> Undefined]
Fulfilled(v) == [state |-> "fulfilled", value |-> v]
Rejected(v) == [state |-> "rejected", value |-> v]

(***************************************************************************)
(* Request descriptors: what an operation hands to fetch.                  *)
(***************************************************************************)
\* the object { k: v }
Prop(k, v) == Val("object", k, "", <<v>>)
EmptyObject == Val("object", "", "", <<>>)

\* value.toString() of a filter value: the bare string put in the URL
toString(v) == v.s

\* JSON.stringify(v): the text of the document; a property whose value is
\* undefined is left out of the document
Stringify(v) ==
    IF v.t = "object" /\ v.items = <<Undefined>>
    THEN Val("json-text", "", "", <<EmptyObject>>)
    ELSE Val("json-text", "", "", <<v>>)

NoBody == Val("no-body", "", "", <<>>)

\* the shared Headers object: Content-Type: application/json
headers == <<"Content-Type", "application/json">>

Request(method, path, query, body) ==
    [method |-> method, path |-> path, query |-> query, body |-> body,
     headers |-> headers]

\* new URL(`${API_BASE_URL}/reservations`) with every entry of params appended
AppendMutantTwice(params) ==
    IF params.given
    THEN [i \in 1..(2 * Len(params.entries)) |->
            <<params.entries[(i + 1) \div 2][1],
              toString(params.entries[(i + 1) \div 2][2])>>]
    ELSE <<>>

searchParams(params) ==
    IF params.given
    THEN [i \in DOMAIN params.entries |->
            <<params.entries[i][1], toString(params.entries[i][2])>>]
    ELSE <<>>

listReservationsRequest(params) ==
    Request("GET", <<"reservations">>, searchParams(params), NoBody)

createReservationRequest(reservation) ==
    Request("POST", <<"reservations">>, <<>>, Stringify(Prop("data", reservation)))

listTablesRequest == Request("GET", <<"tables">>, <<>>, NoBody)

createTableRequest(table) ==
    Request("POST", <<"tables">>, <<>>, Stringify(Prop("data", table)))

editReservationRequest(reservation_id, reservation) ==
    Request("PUT", <<"reservations", toString(reservation_id)>>, <<>>,
            Stringify(Prop("data", reservation)))

updateReservationStatusRequest(reservation_id, status) ==
    Request("PUT", <<"reservations", toString(reservation_id), "status">>, <<>>,
            Stringify(Prop("data", Prop("status", status))))

SeatMutantSwapIds(reservation_id, table_id) ==
    Request("PUT", <<"tables", toString(reservation_id), "seat">>, <<>>,
            Stringify(Prop("data", Prop("reservation_id", table_id))))

seatReservationRequest(reservation_id, table_id) ==
    Request("PUT", <<"tables", toString(table_id), "seat">>, <<>>,
            Stringify(Prop("data", Prop("reservation_id", reservation_id))))

finishTableRequest(table_id) ==
    Request("DELETE", <<"tables", toString(table_id), "seat">>, <<>>, NoBody)

\* the third argument every operation gives fetchJson: []
OnCancelMutantUndefined == Undefined

onCancel == EmptyArray

(***************************************************************************)
(* fetchJson: the transport core.                                          *)
(***************************************************************************)
NoContent == 204

CoreOutcome(state, value, via, log) ==
    [state |-> state, value |-> value, via |-> via, log |-> log]

CorePending == CoreOutcome("pending", Undefined, "pending", <<>>)

\* if (response.status === 204) return null
IsNoContentMutantNever(status) == FALSE

IsNoContent(status) == status = NoContent

\* the catch block: every error but an AbortError is logged and thrown
\* again, an AbortError resolves to onCancel
CatchMutantSwallowAll(error, fallback) ==
    CoreOutcome("fulfilled", fallback, "fallback", <<>>)

CatchMutantRethrowAbort(error, fallback) ==
    CoreOutcome("rejected", error, "rethrow", <<error>>)

CatchMutantWrap(error, fallback) ==
    IF error.s # "AbortError"
    THEN CoreOutcome("rejected", Message(error), "rethrow", <<error>>)
    ELSE CoreOutcome("fulfilled", fallback, "fallback", <<>>)

Catch(error, fallback) ==
    IF error.s # "AbortError"
    THEN CoreOutcome("rejected", error, "rethrow", <<error>>)
    ELSE CoreOutcome("fulfilled", fallback, "fallback", <<>>)

\* the statements after `payload = await response.json()`: reading
\* payload.error of null throws a TypeError inside the try block; a rejected
\* promise that is returned without await leaves the function uncaught
UnwrapMutantDataFirst(body, fallback) ==
    IF body.kind = "null"
    THEN Catch(Err("TypeError", "payload"), fallback)
    ELSE IF body.data # Undefined
    THEN CoreOutcome("fulfilled", body.data, "data", <<>>)
    ELSE IF Truthy(body.error)
    THEN CoreOutcome("rejected", Message(body.error), "backendError", <<>>)
    ELSE CoreOutcome("fulfilled", body.data, "data", <<>>)

Unwrap(body, fallback) ==
    IF body.kind = "null"
    THEN Catch(Err("TypeError", "payload"), fallback)
    ELSE IF Truthy(body.error)
    THEN CoreOutcome("rejected", Message(body.error), "backendError", <<>>)
    ELSE CoreOutcome("fulfilled", body.data, "data", <<>>)

(***************************************************************************)
(* The formatting functions listReservations chains after fetchJson.       *)
(* A reservation_date is the sequence of its numeric fields (year, month,  *)
(* day, then whatever follows the day); a reservation_time likewise (hour, *)
(* minute, then seconds).  Formatting keeps the leading date (time) and    *)
(* drops the rest.                                                         *)
(***************************************************************************)
Reservation(date, time) == [reservation_date |-> date, reservation_time |-> time]

formatDate(reservation) ==
    [reservation EXCEPT !.reservation_date = SubSeq(@, 1, 3)]

formatTime(reservation) ==
    [reservation EXCEPT !.reservation_time = SubSeq(@, 1, 2)]

\* On an array every reservation is normalised.  What the formatter does
\* with a value that is no array is not fixed: it either throws
\* (strict) or hands the value back.
formatReservationDate(v, strict) ==
    IF v.t = "array"
    THEN Fulfilled(Arr([i \in DOMAIN v.items |-> formatDate(v.items[i])]))
    ELSE IF strict
    THEN Rejected(Err("TypeError", "formatReservationDate"))
    ELSE Fulfilled(v)

formatReservationTime(v, strict) ==
    IF v.t = "array"
    THEN Fulfilled(Arr([i \in DOMAIN v.items |-> formatTime(v.items[i])]))
    ELSE IF strict
    THEN Rejected(Err("TypeError", "formatReservationTime"))
    ELSE Fulfilled(v)

ApplyFormatter(fn, v, strict) ==
    IF fn = "formatReservationDate"
    THEN formatReservationDate(v, strict)
    ELSE formatReservationTime(v, strict)

\* the .then(...) callbacks chained on fetchJson's promise, in order
ThenChainMutantReversed(op) ==
    IF op = "listReservations"
    THEN <<"formatReservationTime", "formatReservationDate">>
    ELSE <<>>

ThenChainMutantAll(op) == <<"formatReservationDate", "formatReservationTime">>

ThenChain(op) ==
    IF op = "listReservations"
    THEN <<"formatReservationDate", "formatReservationTime">>
    ELSE <<>>

(***************************************************************************)
(* The environment: arguments callers pass, outcomes the network produces. *)
(***************************************************************************)
ReservationIds == {Num("3"), Str("4")}
TableIds == {Num("7")}
ReservationEntities == {Val("reservation", "first_name", "Ann", <<>>)}
TableEntities == {Val("table", "table_name", "Bar #1", <<>>)}
ReservationStatuses == {Str("cancelled")}

DateParam == <<"date", Str("2023-05-01")>>
MobileParam == <<"mobile_number", Num("555")>>
NoParams == [given |-> FALSE, entries |-> <<>>]
FilterParams ==
    {NoParams} \cup
    {[given |-> TRUE, entries |-> e] :
        e \in {<<>>, <<DateParam>>, <<MobileParam>>,
               <<DateParam, MobileParam>>, <<MobileParam, DateParam>>}}

Signals == {"none", "live", "aborted"}

Statuses == {200, NoContent, 400}

RawDates == {<<2023, 1, 1>>, <<2023, 1, 1, 0, 0>>}
RawTimes == {<<18, 30>>, <<18, 30, 0>>}
Reservations == {Reservation(d, t) : d \in RawDates, t \in RawTimes}

RECURSIVE SeqsUpTo(_, _)
SeqsUpTo(S, n) ==
    IF n = 0 THEN {<<>>}
    ELSE LET shorter == SeqsUpTo(S, n - 1)
         IN shorter \cup {Append(q, x) : q \in {r \in shorter : Len(r) = n - 1}, x \in S}

DataFields ==
    {Undefined, Null} \cup ReservationEntities
        \cup {Arr(items) : items \in SeqsUpTo(Reservations, MaxItems)}

ErrorFields == {Undefined, Str(""), Str("Table occupied")}

Body(kind, error, data) == [kind |-> kind, error |-> error, data |-> data]
NoPayload == Body("none", Undefined, Undefined)
MalformedBody == Body("malformed", Undefined, Undefined)
NullBody == Body("null", Undefined, Undefined)
Bodies ==
    {MalformedBody, NullBody}
        \cup {Body("object", e, d) : e \in ErrorFields, d \in DataFields}

NoResponse == [status |-> 0, body |-> NoPayload]
Responses == [status : Statuses, body : Bodies]

NoCall ==
    [op |-> "none", params |-> NoParams, entity |-> Undefined,
     reservation_id |-> Undefined, table_id |-> Undefined, status |-> Undefined]

(***************************************************************************)
(* Routes: the Switch renders the first child Route that matches.          *)
(***************************************************************************)
Segments == {"dashboard", "reservations", "new", "search", "tables"}
Paths == SeqsUpTo(Segments, MaxDepth)

Element(component, to) == [component |-> component, to |-> to]
Route(hasPath, path, exact, element) ==
    [hasPath |-> hasPath, path |-> path, exact |-> exact, element |-> element]

\* the children of <Switch>, in the order they are declared
routes ==
    << Route(TRUE, <<>>, TRUE, Element("Redirect", <<"dashboard">>)),
       Route(TRUE, <<"reservations">>, TRUE, Element("Redirect", <<"dashboard">>)),
       Route(TRUE, <<"dashboard">>, FALSE, Element("Dashboard", <<>>)),
       Route(TRUE, <<"search">>, FALSE, Element("Search", <<>>)),
       Route(FALSE, <<>>, FALSE, Element("NotFound", <<>>)),
       Route(TRUE, <<"reservations", "new">>, TRUE, Element("NewReservation", <<>>)) >>

\* react-router's matchPath: a Route without a path always matches; a path
\* matches the locations it is a prefix of, and only itself when exact
matchPath(route, loc) ==
    \/ ~route.hasPath
    \/ /\ Len(route.path) <= Len(loc)
       /\ SubSeq(loc, 1, Len(route.path)) = route.path
       /\ route.exact => Len(loc) = Len(route.path)

Switch(loc) ==
    LET matching == {i \in DOMAIN routes : matchPath(routes[i], loc)}
    IN IF matching = {}
       THEN Element("null", <<>>)
       ELSE routes[CHOOSE i \in matching : \A j \in matching : i <= j].element

(***************************************************************************)
(* Initial state                                                           *)
(***************************************************************************)
Init ==
    /\ pc = "idle"
    /\ call = NoCall
    /\ signal = "none"
    /\ abortPhase = "never"
    /\ requests = <<>>
    /\ response = NoResponse
    /\ jsonCalls = 0
    /\ payload = NoPayload
    /\ core = CorePending
    /\ logged = <<>>
    /\ fmtLog = <<>>
    /\ result = Pending
    /\ strictFmt \in BOOLEAN
    /\ location = <<>>
    /\ rendered = Switch(<<>>)

(***************************************************************************)
(* Invoking an operation: it builds its request and calls fetchJson, which *)
(* calls fetch and suspends.                                               *)
(***************************************************************************)
\* an operation can be invoked when none is in progress
Callable == pc \in {"idle", "settled"}

Start(c, req, sig) ==
    /\ pc' = "fetching"
    /\ call' = c
    /\ signal' = sig
    /\ abortPhase' = IF sig = "aborted" THEN "before" ELSE "never"
    /\ requests' = <<req>>
    /\ response' = NoResponse
    /\ jsonCalls' = 0
    /\ payload' = NoPayload
    /\ core' = CorePending
    /\ logged' = <<>>
    /\ fmtLog' = <<>>
    /\ result' = Pending
    /\ UNCHANGED <<strictFmt, routeVars>>

ListReservations ==
    \E params \in FilterParams, sig \in Signals :
        /\ Callable
        /\ Start([NoCall EXCEPT !.op = "listReservations", !.params = params],
              listReservationsRequest(params), sig)

CreateReservation ==
    \E reservation \in ReservationEntities, sig \in Signals :
        /\ Callable
        /\ Start([NoCall EXCEPT !.op = "createReservation", !.entity = reservation],
              createReservationRequest(reservation), sig)

ListTables ==
    \E sig \in Signals :
        /\ Callable
        /\ Start([NoCall EXCEPT !.op = "listTables"], listTablesRequest, sig)

CreateTable ==
    \E table \in TableEntities, sig \in Signals :
        /\ Callable
        /\ Start([NoCall EXCEPT !.op = "createTable", !.entity = table],
              createTableRequest(table), sig)

EditReservation ==
    \E reservation_id \in ReservationIds, reservation \in ReservationEntities,
       sig \in Signals :
        /\ Callable
        /\ Start([NoCall EXCEPT !.op = "editReservation",
                             !.reservation_id = reservation_id,
                             !.entity = reservation],
              editReservationRequest(reservation_id, reservation), sig)

UpdateReservationStatus ==
    \E reservation_id \in ReservationIds, status \in ReservationStatuses,
       sig \in Signals :
        /\ Callable
        /\ Start([NoCall EXCEPT !.op = "updateReservationStatus",
                             !.reservation_id = reservation_id,
                             !.status = status],
              updateReservationStatusRequest(reservation_id, status), sig)

SeatReservation ==
    \E reservation_id \in ReservationIds, table_id \in TableIds, sig \in Signals :
        /\ Callable
        /\ Start([NoCall EXCEPT !.op = "seatReservation",
                             !.reservation_id = reservation_id,
                             !.table_id = table_id],
              seatReservationRequest(reservation_id, table_id), sig)

FinishTable ==
    \E table_id \in TableIds, sig \in Signals :
        /\ Callable
        /\ Start([NoCall EXCEPT !.op = "finishTable", !.table_id = table_id],
              finishTableRequest(table_id), sig)

(***************************************************************************)
(* The caller aborts the signal it supplied.                               *)
(***************************************************************************)
Abort ==
    /\ signal = "live"
    /\ pc # "idle"
    /\ signal' = "aborted"
    /\ abortPhase' = IF pc \in {"fetching", "parsing"} THEN pc ELSE "late"
    /\ UNCHANGED <<pc, call, requests, response, jsonCalls, payload, core, logged,
                   fmtLog, result, strictFmt, routeVars>>

(***************************************************************************)
(* fetchJson resumes.                                                      *)
(***************************************************************************)
\* fetchJson settles with outcome; the operation's promise settles with it
\* unless callbacks are chained on a fulfilled outcome
Finish(outcome) ==
    /\ core' = outcome
    /\ logged' = logged \o outcome.log
    /\ IF outcome.state = "fulfilled" /\ ThenChain(call.op) # <<>>
       THEN pc' = "formatting" /\ result' = result
       ELSE pc' = "settled"
            /\ result' = [state |-> outcome.state, value |-> outcome.value]

\* `await fetch(url, options)` completes: with an AbortError when the signal
\* is aborted, else with a network failure or with a response; a response
\* that is not 204 has response.json() called on it
FetchSettles ==
    /\ pc = "fetching"
    /\ \/ /\ signal = "aborted"
          /\ Finish(Catch(Err("AbortError", "fetch"), onCancel))
          /\ UNCHANGED <<response, jsonCalls>>
       \/ /\ signal # "aborted"
          /\ Finish(Catch(Err("TypeError", "fetch"), onCancel))
          /\ UNCHANGED <<response, jsonCalls>>
       \/ /\ signal # "aborted"
          /\ \E r \in Responses :
                /\ response' = r
                /\ IF IsNoContent(r.status)
                   THEN /\ Finish(CoreOutcome("fulfilled", Null, "noContent", <<>>))
                        /\ UNCHANGED jsonCalls
                   ELSE /\ pc' = "parsing"
                        /\ jsonCalls' = jsonCalls + 1
                        /\ UNCHANGED <<core, logged, result>>
    /\ UNCHANGED <<call, signal, abortPhase, requests, payload, fmtLog, strictFmt,
                   routeVars>>

\* `await response.json()` completes: with an AbortError when the signal is
\* aborted, with a SyntaxError when the body is no JSON document, with a
\* TypeError when the body stream fails, else with the parsed body
JsonSettles ==
    /\ pc = "parsing"
    /\ \/ /\ signal = "aborted"
          /\ Finish(Catch(Err("AbortError", "json"), onCancel))
          /\ UNCHANGED payload
       \/ /\ signal # "aborted"
          /\ Finish(Catch(Err("TypeError", "json"), onCancel))
          /\ UNCHANGED payload
       \/ /\ signal # "aborted"
          /\ response.body.kind = "malformed"
          /\ Finish(Catch(Err("SyntaxError", "json"), onCancel))
          /\ UNCHANGED payload
       \/ /\ signal # "aborted"
          /\ response.body.kind # "malformed"
          /\ payload' = response.body
          /\ Finish(Unwrap(response.body, onCancel))
    /\ UNCHANGED <<call, signal, abortPhase, requests, response, jsonCalls, fmtLog,
                   strictFmt, routeVars>>

\* the next callback chained on fetchJson's promise runs on the value the
\* previous one returned; a callback that throws rejects the chain
ThenStep ==
    /\ pc = "formatting"
    /\ LET chain == ThenChain(call.op)
           i == Len(fmtLog) + 1
           input == IF i = 1 THEN core.value ELSE fmtLog[i - 1].output.value
           output == ApplyFormatter(chain[i], input, strictFmt)
       IN /\ fmtLog' = Append(fmtLog, [fn |-> chain[i], input |-> input,
                                       output |-> output])
          /\ IF output.state = "rejected" \/ i = Len(chain)
             THEN pc' = "settled" /\ result' = output
             ELSE UNCHANGED <<pc, result>>
    /\ UNCHANGED <<call, signal, abortPhase, requests, response, jsonCalls, payload,
                   core, logged, strictFmt, routeVars>>

Next ==
    \/ ListReservations
    \/ CreateReservation
    \/ ListTables
    \/ CreateTable
    \/ EditReservation
    \/ UpdateReservationStatus
    \/ SeatReservation
    \/ FinishTable
    \/ Abort
    \/ FetchSettles
    \/ JsonSettles
    \/ ThenStep

Spec == Init /\ [][Next]_vars

(***************************************************************************)
(* Routes: navigation                                                      *)
(***************************************************************************)
\* the location changes and the Switch renders again
Navigate ==
    \E p \in Paths :
        /\ location' = p
        /\ rendered' = Switch(p)
        /\ UNCHANGED apiVars

\* a rendered <Redirect to=...> replaces the location
FollowRedirect ==
    /\ rendered.component = "Redirect"
    /\ location' = rendered.to
    /\ rendered' = Switch(rendered.to)
    /\ UNCHANGED apiVars

RoutesNext ==
    \/ Navigate
    \/ FollowRedirect

RoutesSpec == Init /\ [][RoutesNext]_vars

(***************************************************************************)
(* Properties                                                              *)
(***************************************************************************)
Settled == pc = "settled"
IsList == call.op = "listReservations"
\* the body was parsed into a JSON object
ParsedObject == payload.kind = "object"
\* the outcome the chained callbacks produced
PipelineOutcome == fmtLog[Len(fmtLog)].output
Normalised(r) ==
    [reservation_date |-> SubSeq(r.reservation_date, 1, 3),
     reservation_time |-> SubSeq(r.reservation_time, 1, 2)]

C4_AbortInFlightResolvesFallback ==
    abortPhase \in {"fetching", "parsing"} =>
        /\ result.state # "rejected"
        /\ core.state # "rejected"
        /\ Settled => result = Fulfilled(Arr(<<>>))
        /\ core.state = "fulfilled" => core.value = Arr(<<>>)

C4_Witness ==
    /\ abortPhase = "parsing"
    /\ call.op = "listTables"
    /\ Settled
    /\ result = Fulfilled(Arr(<<>>))

\* C5: in listReservations the formatters run after fetchJson settles, the
\* date formatter first and the time formatter second on the date
\* formatter's output, and only when fetchJson resolved: when it rejects no
\* formatter is invoked and the rejection reaches the caller unchanged.
C5_PipelineOrderAndBypass ==
    /\ Len(fmtLog) <= 2
    /\ fmtLog # <<>> =>
          /\ IsList
          /\ core.state = "fulfilled"
          /\ fmtLog[1].fn = "formatReservationDate"
          /\ fmtLog[1].input = core.value
    /\ Len(fmtLog) = 2 =>
          /\ fmtLog[2].fn = "formatReservationTime"
          /\ fmtLog[1].output.state = "fulfilled"
          /\ fmtLog[2].input = fmtLog[1].output.value
    /\ (IsList /\ Settled /\ core.state = "fulfilled") =>
          /\ fmtLog # <<>>
          /\ result = PipelineOutcome
          /\ result.state = "fulfilled" => Len(fmtLog) = 2
    /\ core.state = "rejected" =>
          /\ fmtLog = <<>>
          /\ Settled
          /\ result = Rejected(core.value)

C5_Witness ==
    /\ IsList
    /\ Settled
    /\ core.state = "rejected"
    /\ result.value.t = "message"
    /\ fmtLog = <<>>

\* the fetch call failed and the signal had not been aborted
NetworkFailed ==
    /\ pc \notin {"idle", "fetching"}
    /\ response = NoResponse
    /\ abortPhase \notin {"before", "fetching"}
\* response.json() failed and the signal had not been aborted
ParseFailed ==
    /\ jsonCalls = 1
    /\ pc # "parsing"
    /\ payload = NoPayload
    /\ abortPhase # "parsing"

\* C6: a failure of the network call or of the body parse that is no
\* cancellation is logged and rejects the promise with the original error
\* itself; a {message} rejection, a re-thrown error and a fallback resolution
\* exclude one another within one call.
C6_FailureRethrown ==
    /\ NetworkFailed =>
          /\ Settled
          /\ result = Rejected(Val("error", "fetch", "TypeError", <<>>))
          /\ logged = <<result.value>>
    /\ ParseFailed =>
          /\ Settled
          /\ result.state = "rejected"
          /\ result.value.t = "error"
          /\ result.value.k = "json"
          /\ result.value.s \in {"SyntaxError", "TypeError"}
          /\ logged = <<result.value>>
    /\ logged # <<>> =>
          /\ Len(logged) = 1
          /\ logged[1].t = "error"
          /\ logged[1].s # "AbortError"
          /\ Settled
          /\ result = Rejected(logged[1])
          /\ fmtLog = <<>>
    /\ (result.state = "rejected" /\ result.value.t = "message") =>
          /\ logged = <<>>
          /\ signal = "aborted" => abortPhase = "late"
    /\ core.via = "fallback" =>
          /\ logged = <<>>
          /\ core.state = "fulfilled"
          /\ result.state # "rejected"

C6_Witness ==
    /\ ParseFailed
    /\ response.body.kind = "malformed"
    /\ Settled
    /\ result = Rejected(Val("error", "json", "SyntaxError", <<>>))
    /\ logged = <<result.value>>

\* the JSON text of the document {data: v}
DataDocument(v) ==
    Val("json-text", "", "", <<Val("object", "data", "", <<v>>)>>)
\* the wire-protocol table: method, path and body of each operation
WireRequest(r, c) ==
    CASE c.op = "listReservations" ->
            /\ r.method = "GET" /\ r.path = <<"reservations">>
            /\ r.body.t = "no-body"
            /\ Len(r.query) = Len(c.params.entries)
            /\ \A e \in DOMAIN c.params.entries :
                  Cardinality({i \in DOMAIN r.query :
                                  r.query[i][1] = c.params.entries[e][1]}) = 1
            /\ \A e \in DOMAIN c.params.entries :
                  \E i \in DOMAIN r.query :
                      r.query[i] = <<c.params.entries[e][1], c.params.entries[e][2].s>>
      [] c.op = "createReservation" ->
            /\ r.method = "POST" /\ r.path = <<"reservations">> /\ r.query = <<>>
            /\ r.body = DataDocument(c.entity)
      [] c.op = "editReservation" ->
            /\ r.method = "PUT" /\ r.query = <<>>
            /\ r.path = <<"reservations", c.reservation_id.s>>
            /\ r.body = DataDocument(c.entity)
      [] c.op = "updateReservationStatus" ->
            /\ r.method = "PUT" /\ r.query = <<>>
            /\ r.path = <<"reservations", c.reservation_id.s, "status">>
            /\ r.body = DataDocument(Val("object", "status", "", <<c.status>>))
      [] c.op = "listTables" ->
            /\ r.method = "GET" /\ r.path = <<"tables">> /\ r.query = <<>>
            /\ r.body.t = "no-body"
      [] c.op = "createTable" ->
            /\ r.method = "POST" /\ r.path = <<"tables">> /\ r.query = <<>>
            /\ r.body = DataDocument(c.entity)
      [] c.op = "seatReservation" ->
            /\ r.method = "PUT" /\ r.query = <<>>
            /\ r.path = <<"tables", c.table_id.s, "seat">>
            /\ r.body = DataDocument(Val("object", "reservation_id", "",
                                         <<c.reservation_id>>))
      [] c.op = "finishTable" ->
            /\ r.method = "DELETE" /\ r.query = <<>>
            /\ r.path = <<"tables", c.table_id.s, "seat">>
            /\ r.body.t = "no-body"
      [] OTHER -> FALSE

\* C7: every invocation issues exactly one request, never none and never a
\* second one after a failure or a cancellation, with the method, path and
\* body of the wire-protocol table; every key of the filter mapping appears
\* in the query string exactly once.
C7_OneRequestPerWireTable ==
    /\ pc = "idle" => requests = <<>>
    /\ pc # "idle" =>
          /\ Len(requests) = 1
          /\ WireRequest(requests[1], call)
          /\ requests[1].headers = <<"Content-Type", "application/json">>

C7_Witness ==
    /\ IsList
    /\ Len(call.params.entries) = 2
    /\ Len(requests[1].query) = 2
    /\ Settled
    /\ result.state = "rejected"
    /\ logged # <<>>

\* C8: fetchJson resolves to the fallback only when the signal was aborted
\* before the call settled; a signal never aborted, or aborted after the
\* response was received and parsed, never yields the fallback, and an
\* outcome once determined is not changed by a later abort.
C8_FallbackOnlyIfAborted ==
    /\ [](/\ core.via = "fallback" =>
                /\ abortPhase \in {"before", "fetching", "parsing"}
                /\ signal = "aborted"
          /\ abortPhase \in {"never", "late"} =>
                /\ core.via # "fallback"
                /\ (response = NoResponse \/ (jsonCalls = 1 /\ payload = NoPayload))
                      => core.state # "fulfilled")
    /\ [][(abortPhase # "late" /\ abortPhase' = "late")
            => (core' = core /\ result' = result /\ pc' = pc)]_vars
    /\ [][(core.state # "pending" /\ pc' # "fetching") => core' = core]_vars
    /\ [][(result.state # "pending" /\ pc' # "fetching") => result' = result]_vars

C8_Witness ==
    /\ abortPhase = "late"
    /\ signal = "aborted"
    /\ Settled
    /\ core.via = "data"
    /\ result.state = "fulfilled"

\* C9 (as claimed): when a list-reservations request is cancelled the
\* formatters are not invoked and the promise resolves to the fallback
\* itself.
C9_CancelBypassesFormatters ==
    (IsList /\ core.via = "fallback") =>
        /\ fmtLog = <<>>
        /\ Settled => result = Fulfilled(core.value)

\* C9 (amended): the formatting pipeline is bypassed only when fetchJson
\* rejects; a cancelled list-reservations request makes fetchJson resolve to
\* the fallback [], so both formatters are invoked on it, the date formatter
\* first, and the promise resolves to their output, an empty collection.
C9_CancelRunsFormattersOnFallback ==
    /\ (IsList /\ core.via = "fallback") =>
          /\ core.value = Arr(<<>>)
          /\ pc \in {"formatting", "settled"}
          /\ Settled =>
                /\ Len(fmtLog) = 2
                /\ fmtLog[1].fn = "formatReservationDate"
                /\ fmtLog[1].input = Arr(<<>>)
                /\ fmtLog[2].fn = "formatReservationTime"
                /\ result = Fulfilled(Arr(<<>>))
    /\ core.state = "rejected" => fmtLog = <<>>

C9_Witness ==
    /\ IsList
    /\ core.via = "fallback"
    /\ abortPhase = "fetching"
    /\ Settled
    /\ Len(fmtLog) = 2

\* C10: every declared route is reachable: /reservations/new renders
\* NewReservation, and NotFound is rendered only for a path that matches none
\* of the routes declared with a path.
C10_EveryRouteReachable ==
    /\ location = <<"reservations", "new">> =>
          rendered.component = "NewReservation"
    /\ rendered.component = "NotFound" =>
          \A i \in DOMAIN routes :
              routes[i].hasPath => ~matchPath(routes[i], location)

====
